---- MODULE Spec2Model ----
(***************************************************************************)
(* Playback pacing and control core of the foxglove-sdk C++ examples:      *)
(*   - ws-stream-mcap: TimeTracker (virtual clock), McapPlayer (playback   *)
(*     state machine + message cursor), the control-request handler and    *)
(*     the pacer loop of main();                                           *)
(*   - playback-ws-server: DataPlayer.                                      *)
(*                                                                         *)
(* Units.  Wall-clock instants and log times are integers counting 10 ms   *)
(* (the idle sleep of the pacer loop); a float speed is the integer number *)
(* of thousandths it denotes, tagged with its class (finite, infinite,     *)
(* NaN).  static_cast<uint64_t>(double) is integer division.               *)
(***************************************************************************)
EXTENDS Integers, Sequences, FiniteSets, TLC

VARIABLES
  program,           \* which of the two servers runs: "ws-stream-mcap" or "playback-ws-server"
  corpus,            \* the log times of the records of the MCAP file, in iteration order
  player,            \* the McapPlayer object (its fields)
  now,               \* std::chrono::steady_clock::now()
  pc,                \* position of the pacer loop of main(): "check", "tick", "sleep"
  wake_at,           \* the instant the pacer's sleep_for ends
  last_status,       \* main()'s local last_status
  handled,           \* number of control requests handled so far
  exchange,          \* the control request handled by the last step, with its reply and the
                     \* player before the handler and after each of its parts
  delivered,         \* Sink: log times of the records logged since the last seek
  time_broadcasts,   \* Sink: the last broadcastTime timestamp, if any
  ended_entries,     \* number of Playing -> Ended transitions made by the pacer tick
  ended_broadcasts,  \* Sink: the Ended playback-state broadcasts, each with the value of
                     \* ended_entries when it was made
  state_broadcast,   \* Sink: the last PlaybackState broadcast, if any
  data_player,       \* the DataPlayer object (its fields)
  dp_pc,             \* position of DataPlayer::tick: "status", "publish"
  dp_exchange,       \* the control request DataPlayer handled in the last step, with its reply
  dp_sink,           \* Sink of playback-ws-server: the last time broadcast, the last record
                     \* logged, the number of Ended broadcasts
  clock,             \* a TimeTracker object driven on its own (its fields)
  clock_trail,       \* the last call made on clock: its name, the instant, the clock before
                     \* it, and what currentLogTime / wakeupFor gave right after it
  clock_hist,        \* the history of clock: its offset and the unpaused intervals so far
  mtx,               \* the std::mutex shared_player: "free", or the thread that holds it
  callback           \* position of the server thread in the onPlaybackControlRequest lambda,
                     \* with the request it handles

mcap_vars == <<corpus, player, now, pc, wake_at, last_status, exchange,
               delivered, time_broadcasts, ended_entries, ended_broadcasts, state_broadcast>>
dp_vars == <<data_player, dp_pc, dp_exchange, dp_sink>>
clock_vars == <<clock, clock_trail, clock_hist>>
lock_vars == <<mtx, callback>>

vars == <<mtx, callback, clock, clock_trail, clock_hist, program, data_player, dp_pc,
          dp_exchange, dp_sink, corpus, player, now, pc, wake_at, last_status, handled,
          exchange, delivered, time_broadcasts, ended_entries, ended_broadcasts,
          state_broadcast>>

----------------------------------------------------------------------------
(* Bounds of the model *)

MaxNow == 2        \* latest instant at which free-running time may still advance
MaxRequests == 2   \* control requests per behaviour
NumTimesteps == 3  \* records in DataPlayer's buffer

(* Program constants, in the units above *)

OneSecond == 100          \* 1'000'000'000 ns
IdleSleep == 1            \* 10 ms
SpeedScale == 1000        \* the float 1.0
kMinPlaybackSpeed == 10   \* 0.01f
UINT64_MAX == 1023        \* the largest uint64_t: log times are 10-bit here

----------------------------------------------------------------------------
(* std::optional *)

nullopt == <<>>
Some(x) == <<x>>
has_value(o) == Len(o) = 1
value(o) == o[1]

\* a + b in uint64_t
uint64_add(a, b) == (a + b) % (UINT64_MAX + 1)

Max(a, b) == IF a >= b THEN a ELSE b
Min(a, b) == IF a <= b THEN a ELSE b

(* floats *)
Fin(v) == [cls |-> "fin", v |-> v]
NaN == [cls |-> "nan", v |-> 0]
PosInf == [cls |-> "inf", v |-> 1]
NegInf == [cls |-> "inf", v |-> -1]
isfinite(f) == f.cls = "fin"

\* foxglove::PlaybackState
PlaybackState(status, current_time, playback_speed, did_seek, request_id) ==
  [status |-> status, current_time |-> current_time, playback_speed |-> playback_speed,
   did_seek |-> did_seek, request_id |-> request_id]

\* The server answers the client with what the callback returned, its request_id
\* overwritten with the request's; it sends nothing when the callback returned nullopt.
ServerReply(returned, request) ==
  IF has_value(returned)
  THEN Some([value(returned) EXCEPT !.request_id = Some(request.request_id)])
  ELSE nullopt

----------------------------------------------------------------------------
(* Inputs *)

Corpora == { <<>>, <<1, 3, 3>> }
SeekTimes == {0, 2, 5}
DataSeekTimes == {0, 100, 150, 300}
Speeds == {NaN, Fin(1000), Fin(2000)}
Commands == {"Play", "Pause", "Unrecognized"}

\* the client numbers its requests: the n-th request carries request_id n
Requests(n, seek_times) ==
  [request_id : {n}, playback_command : Commands, playback_speed : Speeds,
   seek_time : {nullopt} \cup {Some(t) : t \in seek_times}]

----------------------------------------------------------------------------
(* TimeTracker (time_tracker.hpp) *)

\* mutant: only non-positive speeds are clamped
clampSpeed_positiveOnly(speed) ==
  IF isfinite(speed) /\ speed.v > 0 THEN speed ELSE Fin(kMinPlaybackSpeed)

clampSpeed(speed) ==
  IF isfinite(speed) /\ speed.v >= kMinPlaybackSpeed THEN speed ELSE Fin(kMinPlaybackSpeed)

TimeTracker(offset_ns, speed, t) ==
  [start_ |-> t, offset_ns_ |-> offset_ns, speed_ |-> clampSpeed(speed), paused_ |-> FALSE,
   paused_elapsed_ns_ |-> 0, notify_interval_ns_ |-> OneSecond \div 60, notify_last_ |-> 0]

\* static_cast<uint64_t>(duration<double, nano>(now - start_).count() * double(speed_))
elapsedNanos(tt, t) == ((t - tt.start_) * tt.speed_.v) \div SpeedScale

\* mutant: currentLogTime() forgets paused_
currentLogTime_running(tt, t) ==
  uint64_add(uint64_add(tt.offset_ns_, tt.paused_elapsed_ns_), elapsedNanos(tt, t))

currentLogTime(tt, t) ==
  IF tt.paused_ THEN uint64_add(tt.offset_ns_, tt.paused_elapsed_ns_)
  ELSE uint64_add(uint64_add(tt.offset_ns_, tt.paused_elapsed_ns_), elapsedNanos(tt, t))

\* mutant: wakeupFor() forgets the speed
wakeupFor_unscaled(tt, log_time, t) ==
  LET current == currentLogTime(tt, t)
  IN IF log_time <= current THEN t ELSE t + (log_time - current)

wakeupFor(tt, log_time, t) ==
  LET current == currentLogTime(tt, t)
      log_diff_ns == log_time - current
      wall_diff_ns == IF tt.speed_.v > 0 THEN (log_diff_ns * SpeedScale) \div tt.speed_.v
                      ELSE OneSecond
  IN IF log_time <= current THEN t ELSE t + wall_diff_ns

\* mutant: pause() sets paused_ without accumulating the elapsed log time
TimeTracker_pause_dropElapsed(tt, t) ==
  IF ~tt.paused_ THEN [tt EXCEPT !.paused_ = TRUE] ELSE tt

\* mutant: pause() without the paused_ guard
TimeTracker_pause_unguarded(tt, t) ==
  [tt EXCEPT !.paused_elapsed_ns_ = uint64_add(@, elapsedNanos(tt, t)), !.paused_ = TRUE]

TimeTracker_pause(tt, t) ==
  IF ~tt.paused_
  THEN [tt EXCEPT !.paused_elapsed_ns_ = uint64_add(@, elapsedNanos(tt, t)), !.paused_ = TRUE]
  ELSE tt

\* mutant: resume() keeps the old start_
TimeTracker_resume_keepStart(tt, t) ==
  IF tt.paused_ THEN [tt EXCEPT !.paused_ = FALSE] ELSE tt

TimeTracker_resume(tt, t) ==
  IF tt.paused_ THEN [tt EXCEPT !.start_ = t, !.paused_ = FALSE] ELSE tt

\* mutant: setSpeed() adopts the new speed without folding the elapsed time
TimeTracker_setSpeed_unfolded(tt, speed, t, t_anchor) ==
  [tt EXCEPT !.speed_ = clampSpeed(speed)]

\* setSpeed reads the steady clock twice: at t for the elapsed time it folds, at
\* t_anchor >= t for the new start_
TimeTracker_setSpeed(tt, speed, t, t_anchor) ==
  LET folded == IF ~tt.paused_
                THEN [tt EXCEPT !.paused_elapsed_ns_ = uint64_add(@, elapsedNanos(tt, t)),
                                !.start_ = t_anchor]
                ELSE tt
  IN [folded EXCEPT !.speed_ = clampSpeed(speed)]

\* mutant: notify() without the interval test
notify_always(tt, current_ns) ==
  [tt |-> [tt EXCEPT !.notify_last_ = current_ns], ret |-> Some(current_ns)]

\* current_ns - notify_last_ is an unsigned subtraction: it wraps to a huge value
\* when current_ns < notify_last_
notify(tt, current_ns) ==
  IF current_ns < tt.notify_last_ \/ current_ns - tt.notify_last_ >= tt.notify_interval_ns_
  THEN [tt |-> [tt EXCEPT !.notify_last_ = current_ns], ret |-> Some(current_ns)]
  ELSE [tt |-> tt, ret |-> nullopt]

----------------------------------------------------------------------------
(* McapPlayer (mcap_player.cpp) *)

\* the records a LinearMessageView yields: log-time order, startTime <= logTime < endTime
ViewRecords(file, view) ==
  SelectSeq(file, LAMBDA t : view.startTime <= t /\ t < view.endTime)

\* *iterator_ == message_view_->end()
AtEnd(file, p) == p.iterator_ > Len(ViewRecords(file, p.message_view_))

\* **iterator_
Deref(file, p) == ViewRecords(file, p.message_view_)[p.iterator_]

\* mutant: resetMessageView() keeps the TimeTracker
resetMessageView_keepClock(p, start_time) ==
  [p EXCEPT !.message_view_ = [startTime |-> start_time,
                               endTime |-> uint64_add(p.time_range_[2], 1)],
            !.iterator_ = 1]

resetMessageView(p, start_time) ==
  [p EXCEPT !.message_view_ = [startTime |-> start_time,
                               endTime |-> uint64_add(p.time_range_[2], 1)],
            !.iterator_ = 1,
            !.time_tracker_ = nullopt]

\* statistics(): messageStartTime / messageEndTime of the file
Statistics(file) ==
  IF file = <<>> THEN <<0, 0>> ELSE <<file[1], file[Len(file)]>>

create(file) ==
  LET stats == Statistics(file)
      fresh == [time_range_ |-> stats, current_time_ |-> stats[1], status_ |-> "Paused",
                playback_speed_ |-> Fin(SpeedScale), message_view_ |-> nullopt,
                iterator_ |-> 0, time_tracker_ |-> nullopt]
  IN resetMessageView(fresh, fresh.current_time_)

\* mutant: setPlaybackSpeed() does not pass the speed on to the clock
setPlaybackSpeed_playerOnly(p, speed, t) ==
  [p EXCEPT !.playback_speed_ = clampSpeed(speed)]

setPlaybackSpeed(p, speed, t) ==
  LET s == clampSpeed(speed)
  IN [p EXCEPT !.time_tracker_ = IF has_value(@)
                                 THEN Some(TimeTracker_setSpeed(value(@), s, t, t))
                                 ELSE @,
               !.playback_speed_ = s]

\* mutant: play() restarts the message view at the start of the file
play_restart(p, t) ==
  IF p.status_ = "Ended" THEN p
  ELSE [resetMessageView(p, p.time_range_[1]) EXCEPT !.status_ = "Playing"]

\* mutant: play() without the Ended guard
play_unguarded(p, t) ==
  [p EXCEPT !.time_tracker_ = IF has_value(@) THEN Some(TimeTracker_resume(value(@), t))
                              ELSE @,
            !.status_ = "Playing"]

\* mutant: play() resumes the clock but forgets status_
play_keepStatus(p, t) ==
  IF p.status_ = "Ended" THEN p
  ELSE [p EXCEPT !.time_tracker_ = IF has_value(@) THEN Some(TimeTracker_resume(value(@), t))
                                   ELSE @]

play(p, t) ==
  IF p.status_ = "Ended" THEN p
  ELSE [p EXCEPT !.time_tracker_ = IF has_value(@) THEN Some(TimeTracker_resume(value(@), t))
                                   ELSE @,
                 !.status_ = "Playing"]

\* mutant: pause() sets status_ and leaves the clock running
pause_keepClock(p, t) == [p EXCEPT !.status_ = "Paused"]

pause(p, t) ==
  [p EXCEPT !.time_tracker_ = IF has_value(@) THEN Some(TimeTracker_pause(value(@), t)) ELSE @,
            !.status_ = "Paused"]

\* mutant: seek() puts the speed back to 1.0
seek_resetSpeed(p, log_time) ==
  LET target == Max(p.time_range_[1], Min(log_time, p.time_range_[2]))
      q == resetMessageView(p, target)
  IN [p |-> [q EXCEPT !.current_time_ = target,
                      !.status_ = IF @ = "Ended" THEN "Paused" ELSE @,
                      !.playback_speed_ = Fin(SpeedScale)],
      ret |-> TRUE]

\* mutant: seek() without the clamp
seek_unclamped(p, log_time) ==
  LET q == resetMessageView(p, log_time)
  IN [p |-> [q EXCEPT !.current_time_ = log_time,
                      !.status_ = IF @ = "Ended" THEN "Paused" ELSE @],
      ret |-> TRUE]

\* mutant: seek() that leaves an Ended player Ended
seek_keepEnded(p, log_time) ==
  LET target == Max(p.time_range_[1], Min(log_time, p.time_range_[2]))
      q == resetMessageView(p, target)
  IN [p |-> [q EXCEPT !.current_time_ = target], ret |-> TRUE]

\* mutant: seek() reports failure
seek_returnsFalse(p, log_time) ==
  LET target == Max(p.time_range_[1], Min(log_time, p.time_range_[2]))
      q == resetMessageView(p, target)
  IN [p |-> [q EXCEPT !.current_time_ = target,
                      !.status_ = IF @ = "Ended" THEN "Paused" ELSE @],
      ret |-> FALSE]

\* mutant: seek() rewinds the message view to the start of the file
seek_fromStart(p, log_time) ==
  LET target == Max(p.time_range_[1], Min(log_time, p.time_range_[2]))
      q == resetMessageView(p, p.time_range_[1])
  IN [p |-> [q EXCEPT !.current_time_ = target,
                      !.status_ = IF @ = "Ended" THEN "Paused" ELSE @],
      ret |-> TRUE]

seek(p, log_time) ==
  LET target == Max(p.time_range_[1], Min(log_time, p.time_range_[2]))
      q == resetMessageView(p, target)
  IN [p |-> [q EXCEPT !.current_time_ = target,
                      !.status_ = IF @ = "Ended" THEN "Paused" ELSE @],
      ret |-> TRUE]

\* status_ = Ended; current_time_ = time_range_.second
\* mutant: the exhausted branch forgets status_
markEnded_keepStatus(p) == [p EXCEPT !.current_time_ = p.time_range_[2]]

\* mutant: the exhausted branch puts current_time_ at the start of the range
markEnded_rewind(p) == [p EXCEPT !.status_ = "Ended", !.current_time_ = p.time_range_[1]]

\* mutant: the exhausted branch only returns
markEnded_unmarked(p) == p

markEnded(p) == [p EXCEPT !.status_ = "Ended", !.current_time_ = p.time_range_[2]]

\* One call of logNextMessage at instant t: the player afterwards, the returned
\* sleep duration, the record logged to its channel and the time broadcast, if any.
\* Every record's channel is one of channels_ (createChannels makes one per channel
\* of the file), so the record is logged.
\* mutant: logNextMessage() without the status check
logNextMessage_unchecked(file, p, t) ==
  IF AtEnd(file, p)
  THEN [p |-> markEnded(p),
        ret |-> nullopt, logged |-> nullopt, time |-> nullopt]
  ELSE
    LET logTime == Deref(file, p)
        tt == IF has_value(p.time_tracker_) THEN value(p.time_tracker_)
              ELSE TimeTracker(logTime, p.playback_speed_, t)
        wakeup == wakeupFor(tt, logTime, t)
        n == notify(tt, logTime)
    IN IF wakeup > t
       THEN [p |-> [p EXCEPT !.time_tracker_ = Some(tt)],
             ret |-> Some(wakeup - t), logged |-> nullopt, time |-> nullopt]
       ELSE [p |-> [p EXCEPT !.time_tracker_ = Some(n.tt),
                             !.current_time_ = logTime,
                             !.iterator_ = @ + 1],
             ret |-> nullopt, logged |-> Some(logTime), time |-> n.ret]

\* mutant: the iterator is incremented twice after a delivery
logNextMessage_skipOne(file, p, t) ==
  IF p.status_ # "Playing"
  THEN [p |-> p, ret |-> nullopt, logged |-> nullopt, time |-> nullopt]
  ELSE IF AtEnd(file, p)
  THEN [p |-> markEnded(p),
        ret |-> nullopt, logged |-> nullopt, time |-> nullopt]
  ELSE
    LET logTime == Deref(file, p)
        tt == IF has_value(p.time_tracker_) THEN value(p.time_tracker_)
              ELSE TimeTracker(logTime, p.playback_speed_, t)
        wakeup == wakeupFor(tt, logTime, t)
        n == notify(tt, logTime)
    IN IF wakeup > t
       THEN [p |-> [p EXCEPT !.time_tracker_ = Some(tt)],
             ret |-> Some(wakeup - t), logged |-> nullopt, time |-> nullopt]
       ELSE [p |-> [p EXCEPT !.time_tracker_ = Some(n.tt),
                             !.current_time_ = logTime,
                             !.iterator_ = @ + 2],
             ret |-> nullopt, logged |-> Some(logTime), time |-> n.ret]

\* mutant: current_time_ is assigned before the wakeup test
logNextMessage_earlyTime(file, p, t) ==
  IF p.status_ # "Playing"
  THEN [p |-> p, ret |-> nullopt, logged |-> nullopt, time |-> nullopt]
  ELSE IF AtEnd(file, p)
  THEN [p |-> markEnded(p),
        ret |-> nullopt, logged |-> nullopt, time |-> nullopt]
  ELSE
    LET logTime == Deref(file, p)
        tt == IF has_value(p.time_tracker_) THEN value(p.time_tracker_)
              ELSE TimeTracker(logTime, p.playback_speed_, t)
        wakeup == wakeupFor(tt, logTime, t)
        n == notify(tt, logTime)
    IN IF wakeup > t
       THEN [p |-> [p EXCEPT !.time_tracker_ = Some(tt), !.current_time_ = logTime],
             ret |-> Some(wakeup - t), logged |-> nullopt, time |-> nullopt]
       ELSE [p |-> [p EXCEPT !.time_tracker_ = Some(n.tt),
                             !.current_time_ = logTime,
                             !.iterator_ = @ + 1],
             ret |-> nullopt, logged |-> Some(logTime), time |-> n.ret]

logNextMessage(file, p, t) ==
  IF p.status_ # "Playing"
  THEN [p |-> p, ret |-> nullopt, logged |-> nullopt, time |-> nullopt]
  ELSE IF AtEnd(file, p)
  THEN [p |-> markEnded(p),
        ret |-> nullopt, logged |-> nullopt, time |-> nullopt]
  ELSE
    LET logTime == Deref(file, p)
        tt == IF has_value(p.time_tracker_) THEN value(p.time_tracker_)
              ELSE TimeTracker(logTime, p.playback_speed_, t)
        wakeup == wakeupFor(tt, logTime, t)
        n == notify(tt, logTime)
    IN IF wakeup > t
       THEN [p |-> [p EXCEPT !.time_tracker_ = Some(tt)],
             ret |-> Some(wakeup - t), logged |-> nullopt, time |-> nullopt]
       ELSE [p |-> [p EXCEPT !.time_tracker_ = Some(n.tt),
                             !.current_time_ = logTime,
                             !.iterator_ = @ + 1],
             ret |-> nullopt, logged |-> Some(logTime), time |-> n.ret]

----------------------------------------------------------------------------
(* DataPlayer (playback-ws-server main.cpp); an index i of data_ is i + 1 here *)

\* data_: one record per second, the timestamps only
data_ == [t \in 1..NumTimesteps |-> (t - 1) * OneSecond]

DataPlayer(num_timesteps) ==
  [current_playback_index_ |-> 0, playing_ |-> FALSE, current_time_ |-> 0,
   playback_speed_ |-> Fin(SpeedScale)]

\* std::lower_bound: the first index whose timestamp is not below seek_time, or size()
lower_bound(seek_time) ==
  IF \E i \in 0..(Len(data_) - 1) : data_[i + 1] >= seek_time
  THEN CHOOSE i \in 0..(Len(data_) - 1) :
         /\ data_[i + 1] >= seek_time
         /\ \A j \in 0..(i - 1) : data_[j + 1] < seek_time
  ELSE Len(data_)

\* mutant: seekInternal() moves the index and forgets current_time_
seekInternal_keepTime(dp, seek_time) ==
  IF Len(data_) = 0
  THEN [dp EXCEPT !.current_playback_index_ = 0, !.current_time_ = 0]
  ELSE LET found == lower_bound(seek_time)
           it == IF found = Len(data_) THEN Len(data_) - 1
                 ELSE IF data_[found + 1] > seek_time /\ found # 0 THEN found - 1
                 ELSE found
       IN [dp EXCEPT !.current_playback_index_ = it]

\* mutant: seekInternal() without the step back to the predecessor
seekInternal_noRewind(dp, seek_time) ==
  IF Len(data_) = 0
  THEN [dp EXCEPT !.current_playback_index_ = 0, !.current_time_ = 0]
  ELSE LET found == lower_bound(seek_time)
           it == IF found = Len(data_) THEN Len(data_) - 1 ELSE found
       IN [dp EXCEPT !.current_playback_index_ = it, !.current_time_ = data_[it + 1]]

seekInternal(dp, seek_time) ==
  IF Len(data_) = 0
  THEN [dp EXCEPT !.current_playback_index_ = 0, !.current_time_ = 0]
  ELSE LET found == lower_bound(seek_time)
           it == IF found = Len(data_) THEN Len(data_) - 1
                 ELSE IF data_[found + 1] > seek_time /\ found # 0 THEN found - 1
                 ELSE found
       IN [dp EXCEPT !.current_playback_index_ = it, !.current_time_ = data_[it + 1]]

currentPlaybackStateInternal(dp) ==
  PlaybackState(IF dp.playing_ THEN "Playing" ELSE "Paused", dp.current_time_,
                dp.playback_speed_, FALSE, nullopt)

\* DataPlayer::onPlaybackControlRequest: the player afterwards and the returned state
DataPlayer_onPlaybackControlRequest(dp, request) ==
  LET commanded == CASE request.playback_command = "Play" -> [dp EXCEPT !.playing_ = TRUE]
                     [] request.playback_command = "Pause" -> [dp EXCEPT !.playing_ = FALSE]
                     [] OTHER -> dp
      sped == [commanded EXCEPT !.playback_speed_ = request.playback_speed]
      sought == IF has_value(request.seek_time)
                THEN seekInternal(sped, value(request.seek_time)) ELSE sped
      playback_state == currentPlaybackStateInternal(sought)
  IN [dp |-> sought,
      ret |-> Some(IF has_value(request.seek_time)
                   THEN [playback_state EXCEPT !.did_seek = TRUE] ELSE playback_state)]

\* A control request arrives at playback-ws-server; playback_mutex_ is held throughout.
DataPlayerControlRequest(request) ==
  /\ program = "playback-ws-server"
  /\ handled < MaxRequests
  /\ LET r == DataPlayer_onPlaybackControlRequest(data_player, request)
     IN /\ data_player' = r.dp
        /\ dp_exchange' = Some([request |-> request, returned |-> r.ret,
                                reply |-> ServerReply(r.ret, request)])
  /\ handled' = handled + 1
  /\ UNCHANGED <<program, clock_vars, lock_vars, mcap_vars, dp_pc, dp_sink>>

\* tick(), first part: the status read under playback_mutex_; when Paused, the 50 ms
\* sleep and the return.
DataPlayerTickStatus ==
  /\ program = "playback-ws-server"
  /\ dp_pc = "status"
  /\ dp_pc' = IF currentPlaybackStateInternal(data_player).status = "Paused"
              THEN "status" ELSE "publish"
  /\ dp_exchange' = nullopt
  /\ UNCHANGED <<program, clock_vars, lock_vars, mcap_vars, handled, data_player, dp_sink>>

\* mutant: tick() wraps around at the end of the buffer without leaving Playing
DataPlayerTickPublish_keepPlaying ==
  /\ program = "playback-ws-server"
  /\ dp_pc = "publish"
  /\ LET dp == data_player
         next == dp.current_playback_index_ + 1
         over == next = Len(data_)
     IN /\ data_player' =
             IF over
             THEN [dp EXCEPT !.current_playback_index_ = 0, !.current_time_ = data_[1]]
             ELSE [dp EXCEPT !.current_playback_index_ = next,
                             !.current_time_ = data_[next + 1]]
        /\ dp_sink' = [time |-> Some(dp.current_time_),
                       logged |-> Some(<<data_[dp.current_playback_index_ + 1],
                                         dp.current_time_>>),
                       ended |-> IF over THEN dp_sink.ended + 1 ELSE dp_sink.ended]
  /\ dp_pc' = "status"
  /\ dp_exchange' = nullopt
  /\ UNCHANGED <<program, clock_vars, lock_vars, mcap_vars, handled>>

\* tick(), second part: the publish under playback_mutex_, then the sleep.
DataPlayerTickPublish ==
  /\ program = "playback-ws-server"
  /\ dp_pc = "publish"
  /\ LET dp == data_player
         next == dp.current_playback_index_ + 1
         over == next = Len(data_)
     IN /\ data_player' =
             IF over
             THEN [dp EXCEPT !.current_playback_index_ = 0, !.current_time_ = data_[1],
                             !.playing_ = FALSE]
             ELSE [dp EXCEPT !.current_playback_index_ = next,
                             !.current_time_ = data_[next + 1]]
        /\ dp_sink' = [time |-> Some(dp.current_time_),
                       logged |-> Some(<<data_[dp.current_playback_index_ + 1],
                                         dp.current_time_>>),
                       ended |-> IF over THEN dp_sink.ended + 1 ELSE dp_sink.ended]
  /\ dp_pc' = "status"
  /\ dp_exchange' = nullopt
  /\ UNCHANGED <<program, clock_vars, lock_vars, mcap_vars, handled>>

----------------------------------------------------------------------------
(* ws-stream-mcap main.cpp *)

\* mutant: the reply reports the requested speed, not the player's
Reply_requestedSpeed(p, did_seek, request) ==
  Some(PlaybackState(p.status_, p.current_time_, request.playback_speed, did_seek,
                     Some(request.request_id)))

\* the PlaybackState the handler returns
Reply(p, did_seek, request) ==
  Some(PlaybackState(p.status_, p.current_time_, p.playback_speed_, did_seek,
                     Some(request.request_id)))

\* mutant: the lambda runs the switch before the seek and the speed change
ControlRequest_commandFirst(p, request, t) ==
  LET commanded == CASE request.playback_command = "Play" -> play(p, t)
                     [] request.playback_command = "Pause" -> pause(p, t)
                     [] OTHER -> p
      sought == IF has_value(request.seek_time)
                THEN seek(commanded, value(request.seek_time))
                ELSE [p |-> commanded, ret |-> TRUE]
      did_seek == has_value(request.seek_time) /\ sought.ret
      sped == setPlaybackSpeed(sought.p, request.playback_speed, t)
  IN [after_seek |-> sought.p, after_speed |-> sped, p |-> sped,
      reply |-> Reply(sped, did_seek, request)]

\* The onPlaybackControlRequest lambda run on player p at instant t: the player after
\* each of its three parts, and the reply.
ControlRequest(p, request, t) ==
  LET sought == IF has_value(request.seek_time) THEN seek(p, value(request.seek_time))
                ELSE [p |-> p, ret |-> TRUE]
      did_seek == has_value(request.seek_time) /\ sought.ret
      sped == setPlaybackSpeed(sought.p, request.playback_speed, t)
      commanded == CASE request.playback_command = "Play" -> play(sped, t)
                     [] request.playback_command = "Pause" -> pause(sped, t)
                     [] OTHER -> sped
  IN [after_seek |-> sought.p, after_speed |-> sped, p |-> commanded,
      reply |-> Reply(commanded, did_seek, request)]

\* the server thread outside the callback
NoCallback == [pc |-> "idle", request |-> nullopt, pacer_pc |-> "check", pacer_wake_at |-> 0]

Init ==
  /\ program \in {"ws-stream-mcap", "playback-ws-server"}
  /\ data_player = DataPlayer(NumTimesteps)
  /\ dp_pc = "status"
  /\ dp_exchange = nullopt
  /\ dp_sink = [time |-> nullopt, logged |-> nullopt, ended |-> 0]
  /\ corpus \in IF program = "ws-stream-mcap" THEN Corpora ELSE {<<>>}
  /\ player = create(corpus)
  /\ now = 0
  /\ pc = "check"
  /\ wake_at = 0
  /\ last_status = "Paused"
  /\ handled = 0
  /\ exchange = nullopt
  /\ delivered = <<>>
  /\ time_broadcasts = nullopt
  /\ ended_entries = 0
  /\ ended_broadcasts = <<>>
  /\ state_broadcast = nullopt
  /\ clock = nullopt
  /\ clock_trail = nullopt
  /\ clock_hist = nullopt
  /\ mtx = "free"
  /\ callback = NoCallback

\* A control request arrives and its handler runs, the mutex held throughout.
OnPlaybackControlRequest(request) ==
  /\ program = "ws-stream-mcap"
  /\ handled < MaxRequests
  /\ LET r == ControlRequest(player, request, now)
     IN /\ player' = r.p
        /\ exchange' = Some([request |-> request, returned |-> r.reply,
                             reply |-> ServerReply(r.reply, request), before |-> player,
                             after_seek |-> r.after_seek, after_speed |-> r.after_speed])
        /\ delivered' = IF has_value(request.seek_time) THEN <<>> ELSE delivered
  /\ handled' = handled + 1
  /\ UNCHANGED <<program, dp_vars, clock_vars, lock_vars>>
  /\ UNCHANGED <<corpus, now, pc, wake_at, last_status, time_broadcasts, ended_entries,
                 ended_broadcasts, state_broadcast>>

\* current_status == Ended && last_status != Ended
\* mutant: the check forgets last_status
EndedBroadcastDue_always(current_status, last) == current_status = "Ended"

EndedBroadcastDue(current_status, last) == current_status = "Ended" /\ last # "Ended"

\* Top of the pacer loop: the status check under the mutex, the Ended broadcast,
\* and the idle sleep when not Playing.
PacerCheck ==
  /\ program = "ws-stream-mcap"
  /\ pc = "check"
  /\ LET current_status == player.status_
     IN /\ IF EndedBroadcastDue(current_status, last_status)
           THEN /\ ended_broadcasts' = Append(ended_broadcasts, ended_entries)
                /\ state_broadcast' = Some(PlaybackState("Ended", player.current_time_,
                                                         player.playback_speed_, FALSE, nullopt))
           ELSE UNCHANGED <<ended_broadcasts, state_broadcast>>
        /\ last_status' = current_status
        /\ IF current_status # "Playing"
           THEN pc' = "sleep" /\ wake_at' = now + IdleSleep
           ELSE pc' = "tick" /\ UNCHANGED wake_at
  /\ exchange' = nullopt
  /\ UNCHANGED <<program, dp_vars, clock_vars, lock_vars>>
  /\ UNCHANGED <<corpus, player, now, handled, delivered, time_broadcasts, ended_entries>>

\* mutant: the pacer sleeps for the whole duration logNextMessage returned
PacerTick_uncapped ==
  /\ program = "ws-stream-mcap"
  /\ pc = "tick"
  /\ LET r == logNextMessage(corpus, player, now)
     IN /\ player' = r.p
        /\ delivered' = IF has_value(r.logged) THEN Append(delivered, value(r.logged))
                        ELSE delivered
        /\ time_broadcasts' = IF has_value(r.time) THEN r.time ELSE time_broadcasts
        /\ ended_entries' = IF player.status_ = "Playing" /\ r.p.status_ = "Ended"
                            THEN ended_entries + 1 ELSE ended_entries
        /\ IF has_value(r.ret)
           THEN pc' = "sleep" /\ wake_at' = now + value(r.ret)
           ELSE pc' = "check" /\ UNCHANGED wake_at
  /\ exchange' = nullopt
  /\ UNCHANGED <<program, dp_vars, clock_vars, lock_vars>>
  /\ UNCHANGED <<corpus, now, last_status, handled, ended_broadcasts, state_broadcast>>

\* logNextMessage under the mutex, then the capped sleep.
PacerTick ==
  /\ program = "ws-stream-mcap"
  /\ pc = "tick"
  /\ LET r == logNextMessage(corpus, player, now)
     IN /\ player' = r.p
        /\ delivered' = IF has_value(r.logged) THEN Append(delivered, value(r.logged))
                        ELSE delivered
        /\ time_broadcasts' = IF has_value(r.time) THEN r.time ELSE time_broadcasts
        /\ ended_entries' = IF player.status_ = "Playing" /\ r.p.status_ = "Ended"
                            THEN ended_entries + 1 ELSE ended_entries
        /\ IF has_value(r.ret)
           THEN pc' = "sleep" /\ wake_at' = now + Min(value(r.ret), OneSecond)
           ELSE pc' = "check" /\ UNCHANGED wake_at
  /\ exchange' = nullopt
  /\ UNCHANGED <<program, dp_vars, clock_vars, lock_vars>>
  /\ UNCHANGED <<corpus, now, last_status, handled, ended_broadcasts, state_broadcast>>

\* sleep_for returns: no earlier than wake_at.  Idle polling is followed up to MaxNow.
PacerWake ==
  /\ program = "ws-stream-mcap"
  /\ pc = "sleep"
  /\ Max(now, wake_at) <= MaxNow \/ player.status_ = "Playing"
  /\ now' = Max(now, wake_at)
  /\ pc' = "check"
  /\ exchange' = nullopt
  /\ UNCHANGED <<program, dp_vars, clock_vars, lock_vars>>
  /\ UNCHANGED <<corpus, player, wake_at, last_status, handled, delivered, time_broadcasts,
                 ended_entries, ended_broadcasts, state_broadcast>>

\* Wall-clock time passes.
PassTime ==
  /\ program = "ws-stream-mcap"
  /\ now < MaxNow
  /\ now' = now + 1
  /\ exchange' = nullopt
  /\ UNCHANGED <<program, dp_vars, clock_vars, lock_vars>>
  /\ UNCHANGED <<corpus, player, pc, wake_at, last_status, handled, delivered,
                 time_broadcasts, ended_entries, ended_broadcasts, state_broadcast>>

Next ==
  \/ \E request \in Requests(handled + 1, DataSeekTimes) : DataPlayerControlRequest(request)
  \/ DataPlayerTickStatus
  \/ DataPlayerTickPublish
  \/ \E request \in Requests(handled + 1, SeekTimes) : OnPlaybackControlRequest(request)
  \/ PacerCheck
  \/ PacerTick
  \/ PacerWake
  \/ PassTime

Spec == Init /\ [][Next]_vars

\* The end-to-end scenario: the player starts Paused, one Play request (no seek_time)
\* arrives and no other control request follows.  The pacer thread keeps running:
\* its sleeps end and it gets the mutex.
PlayRequest ==
  /\ handled = 0
  /\ \E request \in Requests(1, SeekTimes) :
       /\ request.playback_command = "Play"
       /\ request.seek_time = nullopt
       /\ OnPlaybackControlRequest(request)

NextPlayOnce ==
  \/ PlayRequest
  \/ PacerCheck
  \/ PacerTick
  \/ PacerWake
  \/ PassTime

PacerRuns == WF_vars(PacerCheck) /\ WF_vars(PacerTick) /\ WF_vars(PacerWake)

InitPlayOnce == Init /\ program = "ws-stream-mcap"

SpecPlayOnce == InitPlayOnce /\ [][NextPlayOnce]_vars /\ PacerRuns

\* The speed scenario: control requests without seek_time whose playback_speed ranges
\* over every class of float: NaN, +/-infinity, zero, negative, just below the
\* minimum, the minimum, and above it.
ClampSpeeds ==
  {NaN, PosInf, NegInf, Fin(0), Fin(-1000), Fin(9), Fin(10), Fin(500), Fin(2000)}

SpeedRequest ==
  \E request \in [request_id : {handled + 1}, playback_command : Commands,
                  playback_speed : ClampSpeeds, seek_time : {nullopt}] :
    OnPlaybackControlRequest(request)

NextSpeed ==
  \/ SpeedRequest
  \/ PacerCheck
  \/ PacerTick
  \/ PacerWake
  \/ PassTime

SpecSpeed == InitPlayOnce /\ [][NextSpeed]_vars

\* playback-ws-server on its own
InitData == Init /\ program = "playback-ws-server"

NextData ==
  \/ \E request \in Requests(handled + 1, DataSeekTimes) : DataPlayerControlRequest(request)
  \/ DataPlayerTickStatus
  \/ DataPlayerTickPublish

SpecData == InitData /\ [][NextData]_vars

\* The scenario of files that end at the top of the log-time domain: the last
\* record at the largest uint64_t, or just below it.
WrapCorpora == { <<UINT64_MAX - 2, UINT64_MAX>>, <<UINT64_MAX - 3, UINT64_MAX - 1>> }
WrapSeekTimes == {0, UINT64_MAX - 1, UINT64_MAX}

InitWrap ==
  /\ program = "ws-stream-mcap"
  /\ data_player = DataPlayer(NumTimesteps)
  /\ dp_pc = "status"
  /\ dp_exchange = nullopt
  /\ dp_sink = [time |-> nullopt, logged |-> nullopt, ended |-> 0]
  /\ corpus \in WrapCorpora
  /\ player = create(corpus)
  /\ now = 0
  /\ pc = "check"
  /\ wake_at = 0
  /\ last_status = "Paused"
  /\ handled = 0
  /\ exchange = nullopt
  /\ delivered = <<>>
  /\ time_broadcasts = nullopt
  /\ ended_entries = 0
  /\ ended_broadcasts = <<>>
  /\ state_broadcast = nullopt
  /\ clock = nullopt
  /\ clock_trail = nullopt
  /\ clock_hist = nullopt
  /\ mtx = "free"
  /\ callback = NoCallback

NextWrap ==
  \/ \E request \in Requests(handled + 1, WrapSeekTimes) : OnPlaybackControlRequest(request)
  \/ PacerCheck
  \/ PacerTick
  \/ PacerWake
  \/ PassTime

SpecWrap == InitWrap /\ [][NextWrap]_vars

\* The empty-file scenario: ws-stream-mcap serving an MCAP file without messages,
\* under every control request.
InitEmpty == Init /\ program = "ws-stream-mcap" /\ corpus = <<>>

NextEmpty ==
  \/ \E request \in Requests(handled + 1, SeekTimes) : OnPlaybackControlRequest(request)
  \/ PacerCheck
  \/ PacerTick
  \/ PacerWake
  \/ PassTime

SpecEmpty == InitEmpty /\ [][NextEmpty]_vars

----------------------------------------------------------------------------
(* A TimeTracker on its own: constructed at instant 0, then paused, resumed, given *)
(* new speeds and asked for wakeups in any order while wall-clock time passes.     *)

MaxClockNow == 4   \* latest instant of the steady clock in this scenario

ClockOffsets == {0, 5}
ClockSpeeds == {NaN, Fin(500), Fin(1000), Fin(2000)}
ClockTargets == {1, 2, 3, 6, 7}

\* logNextMessage delivers the record when !(wakeup > now)
Due(tt, log_time, t) == ~(wakeupFor(tt, log_time, t) > t)

\* what is written down after a call that began at t_call and returned at t: the call,
\* the clock before it with what currentLogTime() gave then, and what currentLogTime()
\* and wakeupFor() give right after it
Trail(op, before, t_call, after, t, target, ret) ==
  [op |-> op, at |-> t, before |-> before, target |-> target, ret |-> ret,
   prior |-> IF has_value(before) THEN Some(currentLogTime(value(before), t_call))
             ELSE nullopt,
   reading |-> currentLogTime(after, t),
   due |-> {log_time \in ClockTargets : Due(after, log_time, t)}]

\* the unpaused interval that began at h.since ends at t, having run at speed
CloseInterval(h, t, speed) ==
  [h EXCEPT !.exact = @ + (t - h.since) * speed.v,
            !.whole = @ + ((t - h.since) * speed.v) \div SpeedScale,
            !.running = FALSE]

InitClock ==
  /\ program = "time-tracker"
  /\ data_player = DataPlayer(NumTimesteps)
  /\ dp_pc = "status"
  /\ dp_exchange = nullopt
  /\ dp_sink = [time |-> nullopt, logged |-> nullopt, ended |-> 0]
  /\ corpus = <<>>
  /\ player = create(corpus)
  /\ now = 0
  /\ pc = "check"
  /\ wake_at = 0
  /\ last_status = "Paused"
  /\ handled = 0
  /\ exchange = nullopt
  /\ delivered = <<>>
  /\ time_broadcasts = nullopt
  /\ ended_entries = 0
  /\ ended_broadcasts = <<>>
  /\ state_broadcast = nullopt
  /\ mtx = "free"
  /\ callback = NoCallback
  /\ \E offset_ns \in ClockOffsets, speed \in ClockSpeeds :
       /\ clock = TimeTracker(offset_ns, speed, 0)
       /\ clock_trail = Trail("TimeTracker", nullopt, 0, clock, 0, nullopt, nullopt)
       /\ clock_hist = [t0 |-> offset_ns, exact |-> 0, whole |-> 0, since |-> 0,
                        running |-> TRUE]

\* the same for a clock whose offset is near the largest uint64_t
TopClockOffsets == {UINT64_MAX - 2}

InitClockTop ==
  /\ program = "time-tracker"
  /\ data_player = DataPlayer(NumTimesteps)
  /\ dp_pc = "status"
  /\ dp_exchange = nullopt
  /\ dp_sink = [time |-> nullopt, logged |-> nullopt, ended |-> 0]
  /\ corpus = <<>>
  /\ player = create(corpus)
  /\ now = 0
  /\ pc = "check"
  /\ wake_at = 0
  /\ last_status = "Paused"
  /\ handled = 0
  /\ exchange = nullopt
  /\ delivered = <<>>
  /\ time_broadcasts = nullopt
  /\ ended_entries = 0
  /\ ended_broadcasts = <<>>
  /\ state_broadcast = nullopt
  /\ mtx = "free"
  /\ callback = NoCallback
  /\ \E offset_ns \in TopClockOffsets, speed \in ClockSpeeds :
       /\ clock = TimeTracker(offset_ns, speed, 0)
       /\ clock_trail = Trail("TimeTracker", nullopt, 0, clock, 0, nullopt, nullopt)
       /\ clock_hist = [t0 |-> offset_ns, exact |-> 0, whole |-> 0, since |-> 0,
                        running |-> TRUE]

ClockPause ==
  /\ program = "time-tracker"
  /\ clock' = TimeTracker_pause(clock, now)
  /\ clock_trail' = Trail("pause", Some(clock), now, clock', now, nullopt, nullopt)
  /\ clock_hist' = IF clock_hist.running THEN CloseInterval(clock_hist, now, clock.speed_)
                   ELSE clock_hist
  /\ UNCHANGED <<program, handled, dp_vars, mcap_vars, lock_vars>>

ClockResume ==
  /\ program = "time-tracker"
  /\ clock' = TimeTracker_resume(clock, now)
  /\ clock_trail' = Trail("resume", Some(clock), now, clock', now, nullopt, nullopt)
  /\ clock_hist' = IF clock_hist.running THEN clock_hist
                   ELSE [clock_hist EXCEPT !.since = now, !.running = TRUE]
  /\ UNCHANGED <<program, handled, dp_vars, mcap_vars, lock_vars>>

\* setSpeed(speed); the steady clock may advance between its two reads
ClockSetSpeed(speed, t_anchor) ==
  /\ program = "time-tracker"
  /\ t_anchor <= MaxClockNow
  /\ clock' = TimeTracker_setSpeed(clock, speed, now, t_anchor)
  /\ now' = t_anchor
  /\ clock_trail' = Trail("setSpeed", Some(clock), now, clock', t_anchor, nullopt, nullopt)
  /\ clock_hist' = IF clock_hist.running
                   THEN [CloseInterval(clock_hist, now, clock.speed_)
                           EXCEPT !.since = t_anchor, !.running = TRUE]
                   ELSE clock_hist
  /\ UNCHANGED <<program, handled, dp_vars, lock_vars, corpus, player, pc, wake_at, last_status,
                 exchange, delivered, time_broadcasts, ended_entries, ended_broadcasts,
                 state_broadcast>>

ClockWakeupFor(log_time) ==
  /\ program = "time-tracker"
  /\ clock_trail' = Trail("wakeupFor", Some(clock), now, clock, now, Some(log_time),
                          Some(wakeupFor(clock, log_time, now)))
  /\ UNCHANGED <<program, handled, dp_vars, mcap_vars, lock_vars, clock, clock_hist>>

ClockPassTime ==
  /\ program = "time-tracker"
  /\ now < MaxClockNow
  /\ now' = now + 1
  /\ UNCHANGED <<program, handled, dp_vars, clock_vars, lock_vars, corpus, player, pc, wake_at,
                 last_status, exchange, delivered, time_broadcasts, ended_entries,
                 ended_broadcasts, state_broadcast>>

NextClock ==
  \/ ClockPause
  \/ ClockResume
  \/ \E speed \in ClockSpeeds, t_anchor \in {now, now + 1} : ClockSetSpeed(speed, t_anchor)
  \/ \E log_time \in ClockTargets : ClockWakeupFor(log_time)
  \/ ClockPassTime

SpecClock == InitClock /\ [][NextClock]_vars

SpecClockTop == InitClockTop /\ [][NextClock]_vars

----------------------------------------------------------------------------
(* The two threads of ws-stream-mcap step by step: each std::lock_guard is a step  *)
(* that waits for the mutex, the statements in its scope are steps of their own,   *)
(* and the end of the scope releases the mutex.                                     *)

\* mutant: a lock that does not wait
Lockable_always(m) == TRUE

\* std::lock_guard's constructor returns once the mutex is free
Lockable(m) == m = "free"

\* mutant: the mutex is still held after the scope
unlock_held(m) == m

\* std::lock_guard's destructor
unlock(m) == "free"

LockRequests(n) ==
  [request_id : {n}, playback_command : {"Play", "Pause"},
   playback_speed : {Fin(1000), Fin(2000)},
   seek_time : {nullopt, Some(3)}]

\* files whose second record waits for its wakeup after the first is delivered
LockCorpora == { <<1, 3, 3>>, <<1, 2, 4>> }

InitLock ==
  /\ program = "ws-stream-mcap"
  /\ data_player = DataPlayer(NumTimesteps)
  /\ dp_pc = "status"
  /\ dp_exchange = nullopt
  /\ dp_sink = [time |-> nullopt, logged |-> nullopt, ended |-> 0]
  /\ corpus \in LockCorpora
  /\ player = create(corpus)
  /\ now = 0
  /\ pc = "check"
  /\ wake_at = 0
  /\ last_status = "Paused"
  /\ handled = 0
  /\ exchange = nullopt
  /\ delivered = <<>>
  /\ time_broadcasts = nullopt
  /\ ended_entries = 0
  /\ ended_broadcasts = <<>>
  /\ state_broadcast = nullopt
  /\ clock = nullopt
  /\ clock_trail = nullopt
  /\ clock_hist = nullopt
  /\ mtx = "free"
  /\ callback = NoCallback

\* The server calls the callback with a request; the thread reaches the lock_guard.
CallbackEnter(request) ==
  /\ callback.pc = "idle"
  /\ handled < MaxRequests
  /\ callback' = [pc |-> "lock", request |-> Some(request), pacer_pc |-> pc,
                  pacer_wake_at |-> wake_at]
  /\ exchange' = nullopt
  /\ UNCHANGED <<program, dp_vars, clock_vars, mtx, handled>>
  /\ UNCHANGED <<corpus, player, now, pc, wake_at, last_status, delivered, time_broadcasts,
                 ended_entries, ended_broadcasts, state_broadcast>>

CallbackLock ==
  /\ callback.pc = "lock"
  /\ Lockable(mtx)
  /\ mtx' = "handler"
  /\ callback' = [callback EXCEPT !.pc = "seek"]
  /\ exchange' = nullopt
  /\ UNCHANGED <<program, dp_vars, clock_vars, handled>>
  /\ UNCHANGED <<corpus, player, now, pc, wake_at, last_status, delivered, time_broadcasts,
                 ended_entries, ended_broadcasts, state_broadcast>>

CallbackSeek ==
  /\ callback.pc = "seek"
  /\ LET request == value(callback.request)
     IN IF has_value(request.seek_time)
        THEN /\ player' = seek(player, value(request.seek_time)).p
             /\ delivered' = <<>>
        ELSE UNCHANGED <<player, delivered>>
  /\ callback' = [callback EXCEPT !.pc = "speed"]
  /\ exchange' = nullopt
  /\ UNCHANGED <<program, dp_vars, clock_vars, mtx, handled>>
  /\ UNCHANGED <<corpus, now, pc, wake_at, last_status, time_broadcasts, ended_entries,
                 ended_broadcasts, state_broadcast>>

CallbackSpeed ==
  /\ callback.pc = "speed"
  /\ player' = setPlaybackSpeed(player, value(callback.request).playback_speed, now)
  /\ callback' = [callback EXCEPT !.pc = "command"]
  /\ exchange' = nullopt
  /\ UNCHANGED <<program, dp_vars, clock_vars, mtx, handled>>
  /\ UNCHANGED <<corpus, now, pc, wake_at, last_status, delivered, time_broadcasts,
                 ended_entries, ended_broadcasts, state_broadcast>>

\* the switch, the returned PlaybackState, and the end of the lambda's scope
CallbackCommandReturn ==
  /\ callback.pc = "command"
  /\ LET request == value(callback.request)
         commanded == CASE request.playback_command = "Play" -> play(player, now)
                        [] request.playback_command = "Pause" -> pause(player, now)
                        [] OTHER -> player
         returned == Reply(commanded, has_value(request.seek_time), request)
     IN /\ player' = commanded
        /\ exchange' = Some([request |-> request, returned |-> returned,
                             reply |-> ServerReply(returned, request)])
  /\ mtx' = unlock(mtx)
  /\ callback' = [callback EXCEPT !.pc = "idle", !.request = nullopt]
  /\ handled' = handled + 1
  /\ UNCHANGED <<program, dp_vars, clock_vars>>
  /\ UNCHANGED <<corpus, now, pc, wake_at, last_status, delivered, time_broadcasts,
                 ended_entries, ended_broadcasts, state_broadcast>>

\* main.cpp:150
PacerLockCheck ==
  /\ pc = "check"
  /\ Lockable(mtx)
  /\ mtx' = "pacer"
  /\ pc' = "checking"
  /\ exchange' = nullopt
  /\ UNCHANGED <<program, dp_vars, clock_vars, callback, handled>>
  /\ UNCHANGED <<corpus, player, now, wake_at, last_status, delivered, time_broadcasts,
                 ended_entries, ended_broadcasts, state_broadcast>>

\* main.cpp:151-169: the status section, the end of its scope, and the idle sleep
PacerStatusUnlock ==
  /\ pc = "checking"
  /\ LET current_status == player.status_
     IN /\ IF EndedBroadcastDue(current_status, last_status)
           THEN /\ ended_broadcasts' = Append(ended_broadcasts, ended_entries)
                /\ state_broadcast' = Some(PlaybackState("Ended", player.current_time_,
                                                         player.playback_speed_, FALSE, nullopt))
           ELSE UNCHANGED <<ended_broadcasts, state_broadcast>>
        /\ last_status' = current_status
        /\ IF current_status # "Playing"
           THEN pc' = "sleep" /\ wake_at' = now + IdleSleep
           ELSE pc' = "tick" /\ UNCHANGED wake_at
  /\ mtx' = unlock(mtx)
  /\ exchange' = nullopt
  /\ UNCHANGED <<program, dp_vars, clock_vars, callback, handled>>
  /\ UNCHANGED <<corpus, player, now, delivered, time_broadcasts, ended_entries>>

\* main.cpp:173
PacerLockTick ==
  /\ pc = "tick"
  /\ Lockable(mtx)
  /\ mtx' = "pacer"
  /\ pc' = "ticking"
  /\ exchange' = nullopt
  /\ UNCHANGED <<program, dp_vars, clock_vars, callback, handled>>
  /\ UNCHANGED <<corpus, player, now, wake_at, last_status, delivered, time_broadcasts,
                 ended_entries, ended_broadcasts, state_broadcast>>

\* main.cpp:174-180: logNextMessage, the end of its scope, and the capped sleep
PacerLogNextUnlock ==
  /\ pc = "ticking"
  /\ LET r == logNextMessage(corpus, player, now)
     IN /\ player' = r.p
        /\ delivered' = IF has_value(r.logged) THEN Append(delivered, value(r.logged))
                        ELSE delivered
        /\ time_broadcasts' = IF has_value(r.time) THEN r.time ELSE time_broadcasts
        /\ ended_entries' = IF player.status_ = "Playing" /\ r.p.status_ = "Ended"
                            THEN ended_entries + 1 ELSE ended_entries
        /\ IF has_value(r.ret)
           THEN pc' = "sleep" /\ wake_at' = now + Min(value(r.ret), OneSecond)
           ELSE pc' = "check" /\ UNCHANGED wake_at
  /\ mtx' = unlock(mtx)
  /\ exchange' = nullopt
  /\ UNCHANGED <<program, dp_vars, clock_vars, callback, handled>>
  /\ UNCHANGED <<corpus, now, last_status, ended_broadcasts, state_broadcast>>

NextLock ==
  \/ \E request \in LockRequests(handled + 1) : CallbackEnter(request)
  \/ CallbackLock
  \/ CallbackSeek
  \/ CallbackSpeed
  \/ CallbackCommandReturn
  \/ PacerLockCheck
  \/ PacerStatusUnlock
  \/ PacerLockTick
  \/ PacerLogNextUnlock
  \/ PacerWake
  \/ PassTime

SpecLock == InitLock /\ [][NextLock]_vars

----------------------------------------------------------------------------
(* Properties *)

range_start == player.time_range_[1]
range_end == player.time_range_[2]

\* C1: with no seek in between, the log times of the records delivered to the Sink
\* are non-decreasing (delivered holds the deliveries since the last seek).
C1_MonotonicDelivery ==
  \A i, j \in 1..Len(delivered) : i < j => delivered[i] <= delivered[j]

C1_Witness == Len(delivered) = 3 /\ delivered[1] < delivered[2]

\* C2: an Ended player leaves Ended only by a control request that carries a
\* seek_time; play(), pause() and setPlaybackSpeed() leave it Ended.
C2_EndedUntilSeek ==
  [][player.status_ = "Ended" /\ player'.status_ # "Ended"
       => has_value(exchange') /\ has_value(value(exchange').request.seek_time)]_vars

\* C3: play() on an Ended player changes nothing of the player (status, current
\* time, speed, cursor, clock); play() on a Paused player makes it Playing.
C3_PlayFrame ==
  has_value(exchange) /\ value(exchange).request.playback_command = "Play"
    => LET before == value(exchange).after_speed
       IN /\ before.status_ = "Ended" => player = before
          /\ before.status_ = "Paused" => player.status_ = "Playing"

C3_Witness ==
  /\ has_value(exchange)
  /\ value(exchange).request.playback_command = "Play"
  /\ value(exchange).after_speed.status_ = "Ended"
  /\ player.status_ = "Ended"

\* C4: after a control request with seek_time t, current_time is t clamped into
\* [range.start, range.end], and the seek is reported as done.
C4_SeekClamps ==
  has_value(exchange) /\ has_value(value(exchange).request.seek_time)
    => LET t == value(value(exchange).request.seek_time)
       IN /\ t < range_start => player.current_time_ = range_start
          /\ t > range_end => player.current_time_ = range_end
          /\ range_start <= t /\ t <= range_end => player.current_time_ = t
          /\ value(value(exchange).reply).did_seek

C4_Witness ==
  /\ has_value(exchange) /\ has_value(value(exchange).request.seek_time)
  /\ value(value(exchange).request.seek_time) > range_end
  /\ range_start < range_end
  /\ player.current_time_ = range_end

\* C5: seek() makes an Ended player Paused and leaves a Playing player Playing and a
\* Paused player Paused.
C5_SeekStatus ==
  has_value(exchange) /\ has_value(value(exchange).request.seek_time)
    => LET was == value(exchange).before.status_
           is == value(exchange).after_seek.status_
       IN /\ was = "Ended" => is = "Paused"
          /\ was # "Ended" => is = was
          /\ value(exchange).request.playback_command = "Unrecognized"
               => player.status_ = is

C5_Witness ==
  /\ has_value(exchange) /\ has_value(value(exchange).request.seek_time)
  /\ value(exchange).before.status_ = "Ended"
  /\ value(exchange).request.playback_command = "Unrecognized"
  /\ player.status_ = "Paused"

\* C6: a pacer tick run while Playing with an exhausted cursor sets status Ended and
\* current_time to range.end, and an Ended player always has current_time = range.end.
C6_EndedAtRangeEnd ==
  /\ [](player.status_ = "Ended" => player.current_time_ = range_end)
  /\ [][pc = "tick" /\ pc' # "tick" /\ player.status_ = "Playing" /\ AtEnd(corpus, player)
          => player'.status_ = "Ended" /\ player'.current_time_ = range_end]_vars

C6_Witness ==
  player.status_ = "Ended" /\ ended_entries > 0 /\ Len(delivered) = 2

\* C7: every Playing -> Ended transition made by a pacer tick gets its Ended
\* broadcast: a transition not broadcast yet is the one the pacer is about to see.
C7_EveryEndedBroadcast ==
  ended_entries - Len(ended_broadcasts)
    <= IF player.status_ = "Ended" /\ last_status # "Ended" THEN 1 ELSE 0

C10_ReplyReflectsState ==
  /\ has_value(exchange)
       => LET x == value(exchange)
          IN /\ has_value(x.reply)
             /\ value(x.reply).status = player.status_
             /\ value(x.reply).current_time = player.current_time_
             /\ value(x.reply).playback_speed = player.playback_speed_
             /\ value(x.reply).request_id = Some(x.request.request_id)
             /\ value(x.returned).request_id = Some(x.request.request_id)
             /\ x.request.request_id = handled
  /\ has_value(dp_exchange)
       => LET x == value(dp_exchange)
          IN /\ has_value(x.reply)
             /\ value(x.reply).status = (IF data_player.playing_ THEN "Playing" ELSE "Paused")
             /\ value(x.reply).current_time = data_player.current_time_
             /\ value(x.reply).playback_speed = data_player.playback_speed_
             /\ value(x.reply).request_id = Some(x.request.request_id)
             /\ x.request.request_id = handled

C10_Witness ==
  /\ has_value(exchange)
  /\ value(exchange).request.playback_speed = NaN
  /\ value(exchange).request.playback_command = "Unrecognized"
  /\ value(exchange).request.seek_time = nullopt
  /\ value(exchange).request.request_id = 2
  /\ value(value(exchange).reply).status = "Ended"

\* C11 as stated: the did_seek of a control reply is false when the request carries
\* no seek_time, and with a seek_time it is true only if the seek changed the
\* playback position (the current time).
C11_DidSeekRecordsChange ==
  has_value(exchange)
    => LET x == value(exchange)
       IN /\ ~has_value(x.request.seek_time) => ~value(x.reply).did_seek
          /\ has_value(x.request.seek_time) /\ value(x.reply).did_seek
               => x.after_seek.current_time_ # x.before.current_time_

\* C11, amended: did_seek is false when the request carries no seek_time and true
\* when it carries one, whether or not the seek moved the playback position.
C11_DidSeek ==
  has_value(exchange)
    => value(value(exchange).reply).did_seek
         = has_value(value(exchange).request.seek_time)

\* a seek that leaves the player exactly as it was, answered with did_seek
C11_Witness ==
  /\ has_value(exchange)
  /\ value(exchange).request.seek_time = Some(0)
  /\ value(exchange).after_seek = value(exchange).before
  /\ value(exchange).before.current_time_ = 1
  /\ value(value(exchange).reply).did_seek

\* C12: whatever speed s a control request carries, afterwards playbackSpeed() is s
\* when s is finite and at least 0.01, and 0.01 otherwise; the request is answered
\* (never rejected) and the reply reports that clamped speed.
C12_SpeedClamped ==
  has_value(exchange)
    => LET s == value(exchange).request.playback_speed
           accepted == s.cls = "fin" /\ s.v >= 10
       IN /\ accepted => player.playback_speed_ = s
          /\ ~accepted => player.playback_speed_ = Fin(10)
          /\ has_value(value(exchange).reply)
          /\ value(value(exchange).reply).playback_speed = player.playback_speed_

C12_Witness ==
  /\ has_value(exchange)
  /\ value(exchange).request.playback_speed = Fin(9)
  /\ value(exchange).before.playback_speed_ = Fin(2000)
  /\ value(value(exchange).reply).playback_speed = Fin(10)
  /\ has_value(player.time_tracker_)

\* C13: while the clock is paused, currentLogTime() gives what it gave right after
\* the last call on the clock, however much wall-clock time has passed since, and
\* the records that are due are the ones that were due then.
C13_PausedClockStill ==
  clock.paused_
    => /\ currentLogTime(clock, now) = clock_trail.reading
       /\ {log_time \in ClockTargets : Due(clock, log_time, now)} = clock_trail.due

C13_Witness ==
  /\ clock_trail.op = "pause"
  /\ clock.paused_
  /\ now >= clock_trail.at + 2
  /\ clock_trail.reading > clock_hist.t0
  /\ \E log_time \in ClockTargets : ~Due(clock, log_time, now)
  /\ \E log_time \in ClockTargets : Due(clock, log_time, now)

\* C14: pause() on a paused clock leaves the clock as it is, even when wall-clock
\* time has passed since the first pause(); resume() on a running clock leaves the
\* clock, and so its reading, as it is.
C14_PauseResumeIdempotent ==
  /\ clock_trail.op = "pause" /\ value(clock_trail.before).paused_
       => /\ clock = value(clock_trail.before)
          /\ Some(clock_trail.reading) = clock_trail.prior
  /\ clock_trail.op = "resume" /\ ~value(clock_trail.before).paused_
       => /\ clock = value(clock_trail.before)
          /\ Some(clock_trail.reading) = clock_trail.prior

C14_Witness ==
  /\ clock_trail.op = "pause"
  /\ value(clock_trail.before).paused_
  /\ value(clock_trail.before).paused_elapsed_ns_ > 0
  /\ elapsedNanos(value(clock_trail.before), clock_trail.at)
       > value(clock_trail.before).paused_elapsed_ns_

\* C15: right after setSpeed() the clock reads what it read when setSpeed() was
\* called, on a running clock (whatever the old and the new speed) as on a paused one.
C15_SetSpeedContinuous ==
  clock_trail.op = "setSpeed" => Some(clock_trail.reading) = clock_trail.prior

C15_Witness ==
  /\ clock_trail.op = "setSpeed"
  /\ ~clock.paused_
  /\ value(clock_trail.before).speed_ = Fin(2000)
  /\ clock.speed_ = Fin(500)
  /\ clock_trail.reading >= clock_hist.t0 + 4

\* C16 as stated: after any sequence of pause / resume / setSpeed on a clock created
\* with offset t0, the paused clock reads t0 plus the sum over the past unpaused
\* intervals of (interval length * speed in force), and the running clock reads that
\* plus (now - wall anchor) * speed; the total is taken in whole time units.
C16_ClockReadingExact ==
  LET h == clock_hist
  IN IF clock.paused_
     THEN currentLogTime(clock, now) = h.t0 + h.exact \div SpeedScale
     ELSE currentLogTime(clock, now)
            = h.t0 + (h.exact + (now - h.since) * clock.speed_.v) \div SpeedScale

\* C16, amended: the same with every product (interval length * speed) cut to whole
\* time units before it is added, an interval ending at the instant pause() or
\* setSpeed() read the steady clock and beginning at the instant the constructor,
\* resume() or setSpeed() set the wall anchor.
C16_ClockReading ==
  LET h == clock_hist
  IN IF clock.paused_
     THEN currentLogTime(clock, now) = h.t0 + h.whole
     ELSE currentLogTime(clock, now)
            = h.t0 + h.whole + ((now - h.since) * clock.speed_.v) \div SpeedScale

C16_Witness ==
  /\ ~clock.paused_
  /\ clock_hist.whole >= 3
  /\ clock_hist.exact > clock_hist.whole * SpeedScale
  /\ clock_hist.since > 0 /\ now > clock_hist.since
  /\ clock_trail.op = "resume" /\ value(clock_trail.before).paused_
  /\ clock.speed_ = Fin(500)

\* C17 as stated: wakeupFor(target) returns the present instant when
\* target <= currentLogTime() and otherwise now + (target - currentLogTime()) / speed,
\* so a record is reported due exactly when its log time is at or before the reading.
C17_WakeupForExact ==
  clock_trail.op = "wakeupFor"
    => LET current == value(clock_trail.prior)
           target == value(clock_trail.target)
           ret == value(clock_trail.ret)
       IN /\ target <= current => ret = clock_trail.at
          /\ target > current
               => ret = clock_trail.at + ((target - current) * SpeedScale) \div clock.speed_.v
          /\ ~(ret > clock_trail.at) <=> target <= current

\* C17, amended: the quotient is cut to whole time units, so a record is reported due
\* exactly when its log time is less than `speed` time units ahead of the reading.
C17_WakeupFor ==
  clock_trail.op = "wakeupFor"
    => LET current == value(clock_trail.prior)
           target == value(clock_trail.target)
           ret == value(clock_trail.ret)
       IN /\ target <= current => ret = clock_trail.at
          /\ target > current
               => ret = clock_trail.at + ((target - current) * SpeedScale) \div clock.speed_.v
          /\ ~(ret > clock_trail.at) <=> (target - current) * SpeedScale < clock.speed_.v

C17_Witness ==
  /\ clock_trail.op = "wakeupFor"
  /\ clock.speed_ = Fin(2000)
  /\ ~clock.paused_
  /\ value(clock_trail.target) = value(clock_trail.prior) + 3
  /\ value(clock_trail.ret) = clock_trail.at + 1
  /\ clock_trail.at > 0

\* C18: a thread that is inside a lock_guard scope holds the mutex, so the pacer's
\* sections and the handler never overlap; and every change of the player is made by
\* the thread that holds the mutex, so a handler execution and a tick's section are
\* never interrupted by the other thread.
C18_SingleMutex ==
  /\ [](/\ pc \in {"checking", "ticking"} => mtx = "pacer"
        /\ callback.pc \in {"seek", "speed", "command"} => mtx = "handler")
  /\ [][player' # player
          => \/ mtx = "pacer" /\ pc \in {"checking", "ticking"} /\ pc' # pc
                /\ callback' = callback
             \/ mtx = "handler" /\ callback.pc \in {"seek", "speed", "command"}
                /\ callback'.pc # callback.pc /\ pc' = pc]_vars

C18_Witness ==
  /\ mtx = "handler"
  /\ callback.pc = "command"
  /\ has_value(value(callback.request).seek_time)
  /\ pc = "tick"
  /\ Len(delivered) = 0
  /\ player.current_time_ = 3

\* C19: the pacer does not hold the mutex while it sleeps (idle sleep or sleep until
\* the wakeup), so a request that waits for the mutex during a sleep finds it free.
C19_SleepsUnlocked ==
  /\ pc = "sleep" => mtx # "pacer"
  /\ pc = "sleep" /\ callback.pc = "lock" => Lockable(mtx)

\* a request arrived during the sleep until a record's wakeup, and was handled to the
\* end before that sleep is over
C19_Witness ==
  /\ pc = "sleep"
  /\ now < wake_at
  /\ wake_at > now + IdleSleep
  /\ callback.pc = "idle"
  /\ callback.pacer_pc = "sleep"
  /\ callback.pacer_wake_at = wake_at
  /\ has_value(exchange)
  /\ value(exchange).request.playback_command = "Pause"
  /\ player.status_ = "Paused"

\* C20: a record is delivered, and a time is broadcast, only by a step taken with
\* status Playing, which leaves the status Playing: while the status is not Playing
\* (after a Pause was applied, until a Play is applied) nothing is delivered.
C20_DeliveryOnlyWhilePlaying ==
  [][Len(delivered') > Len(delivered) \/ time_broadcasts' # time_broadcasts
       => player.status_ = "Playing" /\ player'.status_ = "Playing"]_vars

\* the pacer saw Playing, then a Pause was applied before the pacer's tick
C20_Witness ==
  /\ pc = "ticking"
  /\ last_status = "Playing"
  /\ player.status_ = "Paused"
  /\ Len(delivered) = 2
  /\ ~AtEnd(corpus, player)
  /\ Due(value(player.time_tracker_), Deref(corpus, player), now)

\* the log time of the record delivered last
LastDelivered(d) == d[Len(d)]

FirstAtOrAfter(file, t) ==
  LET later == SelectSeq(file, LAMBDA r : r >= t)
  IN IF later = <<>> THEN nullopt ELSE Some(later[1])

\* C22: seek(t) puts the cursor at the first record with log time >= clamp(t) and
\* drops the previous iteration state; only seek() moves the start of the view; so
\* under any interleaving with the pacer every record delivered since the last seek
\* has log time >= clamp(t), the first of them being the first such record of the file.
C22_SeekForwardSnap ==
  /\ [](/\ \A i \in 1..Len(delivered) : delivered[i] >= player.message_view_.startTime
        /\ Len(delivered) >= 1
             => Some(delivered[1]) = FirstAtOrAfter(corpus, player.message_view_.startTime))
  /\ [][/\ callback.pc = "seek" /\ callback'.pc = "speed"
             /\ has_value(value(callback.request).seek_time)
           => LET t == value(value(callback.request).seek_time)
              IN /\ player'.message_view_.startTime = Max(range_start, Min(t, range_end))
                 /\ player'.iterator_ = 1
                 /\ delivered' = <<>>
        /\ player'.message_view_ # player.message_view_
           => callback.pc = "seek" /\ callback'.pc = "speed"]_vars

\* the pacer sleeps until the wakeup of the record at 2, which it peeked at instant 0;
\* a seek to 3 has just been applied
C22_Witness ==
  /\ corpus = <<1, 2, 4>>
  /\ callback.pc = "speed"
  /\ value(callback.request).seek_time = Some(3)
  /\ pc = "sleep" /\ last_status = "Playing" /\ player.status_ = "Playing"
  /\ now = 0 /\ wake_at = 1
  /\ player.message_view_.startTime = 3
  /\ ~AtEnd(corpus, player) /\ Deref(corpus, player) = 4

\* C23: with a file without records the range is the single point [0, 0]; no pacer
\* tick delivers a record or broadcasts a time, and a tick run in status Playing
\* makes the status Ended with current_time = range.end.
C23_EmptyCorpusEnds ==
  /\ [](range_start = range_end /\ delivered = <<>> /\ time_broadcasts = nullopt)
  /\ [][pc = "tick" /\ pc' # "tick" /\ player.status_ = "Playing"
          => /\ player'.status_ = "Ended"
             /\ player'.current_time_ = range_end
             /\ pc' = "check"]_vars

C23_Witness ==
  /\ corpus = <<>>
  /\ player.status_ = "Ended"
  /\ ended_entries = 1
  /\ handled = 1
  /\ ended_broadcasts = <<1>>

C26_HandlerOrder ==
  has_value(exchange) =>
    LET x == value(exchange)
        rq == x.request
        returned == value(x.returned)
    IN /\ x.after_seek.status_ = IF has_value(rq.seek_time) /\ x.before.status_ = "Ended"
                                 THEN "Paused" ELSE x.before.status_
       /\ x.after_speed.status_ = x.after_seek.status_
       /\ x.after_speed.current_time_ = x.after_seek.current_time_
       /\ x.after_speed.playback_speed_ = player.playback_speed_
       /\ player.current_time_ = x.after_seek.current_time_
       /\ has_value(rq.seek_time) =>
            LET target == Max(range_start, Min(value(rq.seek_time), range_end))
            IN /\ x.after_seek.current_time_ = target
               /\ returned.current_time = target
               /\ rq.playback_command = "Play" => returned.status = "Playing"
               /\ rq.playback_command = "Pause" => returned.status = "Paused"

\* a request with seek_time 5 and Play on the Ended player of the file 1, 3, 3
C26_Witness ==
  /\ has_value(exchange)
  /\ value(exchange).before.status_ = "Ended"
  /\ value(exchange).request.seek_time = Some(5)
  /\ value(exchange).request.playback_command = "Play"
  /\ value(value(exchange).returned).status = "Playing"
  /\ value(value(exchange).returned).current_time = 3
  /\ corpus = <<1, 3, 3>>

\* C27: every sleep of the pacer loop is bounded. A sleep started after the status
\* check is the idle sleep of 10 ms and is started only when the status read was
\* not Playing; a sleep started after a tick lasts the wait the tick returned,
\* capped at one second; so a sleeping pacer is never more than one second away
\* from its wake-up, and when it wakes it goes back to the status check.
C27_SleepBounded ==
  /\ [](pc = "sleep" => wake_at - now <= OneSecond)
  /\ [][/\ pc = "check" /\ pc' = "sleep"
             => /\ last_status' # "Playing"
                /\ wake_at' = now + IdleSleep
        /\ pc = "tick" /\ pc' = "sleep"
             => LET wait == logNextMessage(corpus, player, now).ret
                IN /\ has_value(wait)
                   /\ wake_at' = now + Min(value(wait), OneSecond)
                   /\ wake_at' - now <= OneSecond
        /\ pc = "sleep" /\ pc' # "sleep"
             => pc' = "check" /\ now' = Max(now, wake_at)]_vars

\* at speed 0.01 the record at 3 is due two seconds after the record at 1: the
\* pacer sleeps one second
C27_Witness ==
  /\ pc = "sleep"
  /\ player.status_ = "Playing"
  /\ delivered = <<1>>
  /\ wake_at = now + OneSecond
  /\ value(logNextMessage(corpus, player, now).ret) = 2 * OneSecond

\* C28: a call of logNextMessage that returns a wait, or that finds the status
\* not Playing, delivers nothing and leaves status, current time, speed, the view
\* and the iterator as they were; and the iterator and the view only change in a
\* call that delivers or in the seek part of a handler, so the record a tick
\* declined is the one the next tick evaluates unless a seek came in between.
C28_DecliningTickFrame ==
  [][/\ /\ pc = "ticking" /\ pc' # "ticking"
        /\ pc' = "sleep" \/ player.status_ # "Playing"
        => /\ delivered' = delivered
           /\ time_broadcasts' = time_broadcasts
           /\ player'.status_ = player.status_
           /\ player'.current_time_ = player.current_time_
           /\ player'.playback_speed_ = player.playback_speed_
           /\ player'.message_view_ = player.message_view_
           /\ player'.iterator_ = player.iterator_
     /\ \/ player'.iterator_ # player.iterator_
        \/ player'.message_view_ # player.message_view_
        => \/ /\ pc = "ticking" /\ Len(delivered') = Len(delivered) + 1
              /\ player'.iterator_ = player.iterator_ + 1
           \/ /\ callback.pc = "seek"
              /\ has_value(value(callback.request).seek_time)]_vars

\* the pacer sleeps on the wait returned for the record at 3, which is still the
\* one under the iterator; the record at 1 is the last delivered
C28_Witness ==
  /\ corpus = <<1, 3, 3>>
  /\ pc = "sleep" /\ wake_at > now
  /\ player.status_ = "Playing"
  /\ delivered = <<1>>
  /\ player.current_time_ = 1
  /\ ~AtEnd(corpus, player) /\ Deref(corpus, player) = 3
  /\ callback.pc = "idle"

C30_PausedTimeNotCounted ==
  [][(clock.paused_ \/ clock'.paused_) /\ clock'.speed_ = clock.speed_
       => /\ currentLogTime(clock', now') = currentLogTime(clock, now)
          /\ \A log_time \in ClockTargets :
               wakeupFor(clock', log_time, now') - now'
                 = wakeupFor(clock, log_time, now) - now]_vars

\* a clock at speed 1 that ran one unit, was paused and has just been resumed at
\* instant 3: its log time is still 1 and the target 3 is due at 5
C30_Witness ==
  /\ clock_trail.op = "resume"
  /\ value(clock_trail.before).paused_
  /\ ~clock.paused_
  /\ clock.offset_ns_ = 0 /\ clock.speed_ = Fin(1000)
  /\ clock.paused_elapsed_ns_ = 1
  /\ now = 3 /\ clock.start_ = 3
  /\ currentLogTime(clock, now) = 1
  /\ wakeupFor(clock, 3, now) = 5

\* C31: the range is inclusive at both ends. After a handler run with a seek_time
\* the view yields every record of the file from its start time up to and
\* including range.end, also when range.end is the largest uint64_t.
C31_RangeEndInclusive ==
  has_value(exchange) /\ has_value(value(exchange).request.seek_time)
    => ViewRecords(corpus, player.message_view_)
         = SelectSeq(corpus, LAMBDA t : player.message_view_.startTime <= t /\ t <= range_end)

\* C32: after a DataPlayer handler run with a seek_time t, current_playback_index_
\* points at a record of the buffer, current_time_ is that record's timestamp, and
\* the record is the one with the greatest timestamp <= t, or the first record
\* when every timestamp is above t.
C32_DataSeekPredecessor ==
  has_value(dp_exchange) /\ has_value(value(dp_exchange).request.seek_time)
    => LET t == value(value(dp_exchange).request.seek_time)
           i == data_player.current_playback_index_
           at_or_before == {j \in 0..(Len(data_) - 1) : data_[j + 1] <= t}
       IN /\ i \in 0..(Len(data_) - 1)
          /\ data_player.current_time_ = data_[i + 1]
          /\ value(value(dp_exchange).reply).current_time = data_[i + 1]
          /\ IF at_or_before = {} THEN i = 0
             ELSE /\ i \in at_or_before
                  /\ \A j \in at_or_before : data_[j + 1] <= data_[i + 1]

\* a seek to 1.5 s lands on the record at 1 s
C32_Witness ==
  /\ has_value(dp_exchange)
  /\ value(dp_exchange).request.seek_time = Some(150)
  /\ data_player.current_playback_index_ = 1
  /\ data_player.current_time_ = OneSecond

\* C33: the publish step of tick() that publishes the last record of the buffer
\* broadcasts one Ended PlaybackState and leaves the player Paused with the index
\* and current_time_ at the first record; no other step broadcasts Ended.
C33_DataEndOfPlayback ==
  [][/\ dp_pc = "publish" /\ dp_pc' = "status"
        /\ data_player.current_playback_index_ = Len(data_) - 1
        => /\ dp_sink'.ended = dp_sink.ended + 1
           /\ dp_sink'.logged = Some(<<data_[Len(data_)], data_player.current_time_>>)
           /\ ~data_player'.playing_
           /\ data_player'.current_playback_index_ = 0
           /\ data_player'.current_time_ = data_[1]
     /\ dp_sink'.ended # dp_sink.ended
        => /\ dp_pc = "publish"
           /\ data_player.current_playback_index_ = Len(data_) - 1]_vars

\* the last record has just been published: one Ended broadcast, the player is
\* Paused at the first record
C33_Witness ==
  /\ dp_sink.ended = 1
  /\ dp_sink.logged = Some(<<data_[Len(data_)], data_[Len(data_)]>>)
  /\ ~data_player.playing_
  /\ data_player.current_playback_index_ = 0
  /\ data_player.current_time_ = 0
  /\ dp_pc = "status"

\* C34: status and clock agree. A Playing player has no TimeTracker or one that is
\* not paused; a Paused player has no TimeTracker or a paused one, whose
\* currentLogTime() is the same at every instant.
C34_StatusClockAgree ==
  /\ player.status_ = "Playing" /\ has_value(player.time_tracker_)
       => ~value(player.time_tracker_).paused_
  /\ player.status_ = "Paused" /\ has_value(player.time_tracker_)
       => /\ value(player.time_tracker_).paused_
          /\ \A t \in now..(now + OneSecond) :
               currentLogTime(value(player.time_tracker_), t)
                 = currentLogTime(value(player.time_tracker_), now)

\* a player paused after its first delivery: the clock exists and is paused
C34_Witness ==
  /\ player.status_ = "Paused"
  /\ has_value(player.time_tracker_)
  /\ value(player.time_tracker_).paused_
  /\ delivered = <<1>>
  /\ now > value(player.time_tracker_).start_

\* C35: current_time_ is always within the time range of the file, and every step
\* that is not the seek part of a handler leaves it where it was or moves it
\* forward.
C35_CurrentTimeInRange ==
  /\ [](range_start <= player.current_time_ /\ player.current_time_ <= range_end)
  /\ [][~(callback.pc = "seek" /\ has_value(value(callback.request).seek_time))
          => player'.current_time_ >= player.current_time_]_vars

\* two records delivered without a seek: current_time_ went 1, 2
C35_Witness ==
  /\ corpus = <<1, 2, 4>>
  /\ delivered = <<1, 2>>
  /\ player.current_time_ = 2
  /\ player.message_view_.startTime = 1
  /\ player.status_ = "Playing"
  /\ handled = 1

\* C36: the clock never runs backwards. Over every step of a TimeTracker (pause,
\* resume, setSpeed, a wakeupFor query, wall-clock time passing) the value of
\* currentLogTime() after the step is at least its value before the step.
C36_ClockMonotonic ==
  [][currentLogTime(clock', now') >= currentLogTime(clock, now)]_vars

\* C37: the player's playback speed is always a finite number of at least 0.01,
\* and a TimeTracker that exists runs at exactly that speed; so speed_ > 0 holds
\* whenever wakeupFor is evaluated and its fallback delay is never used.
C37_SpeedPositiveAndShared ==
  /\ isfinite(player.playback_speed_)
  /\ player.playback_speed_.v >= kMinPlaybackSpeed
  /\ has_value(player.time_tracker_)
       => /\ value(player.time_tracker_).speed_ = player.playback_speed_
          /\ value(player.time_tracker_).speed_.v > 0

\* a request with speed NaN was handled while the clock existed: both speeds are 0.01
C37_Witness ==
  /\ has_value(exchange)
  /\ value(exchange).request.playback_speed = NaN
  /\ has_value(value(exchange).before.time_tracker_)
  /\ value(value(exchange).before.time_tracker_).speed_ = Fin(2000)
  /\ has_value(player.time_tracker_)
  /\ value(player.time_tracker_).speed_ = Fin(kMinPlaybackSpeed)
  /\ player.playback_speed_ = Fin(kMinPlaybackSpeed)

\* C38: seek() leaves the playback speed alone. The seek part of a handler does
\* not change playback_speed_ (and drops the clock), and the call of
\* logNextMessage that creates the clock afterwards gives it the player's
\* playback_speed_, which that call does not change either.
C38_SeekKeepsSpeed ==
  [][/\ callback.pc = "seek" /\ callback'.pc = "speed"
        => /\ player'.playback_speed_ = player.playback_speed_
           /\ has_value(value(callback.request).seek_time)
                => ~has_value(player'.time_tracker_)
     /\ ~has_value(player.time_tracker_) /\ has_value(player'.time_tracker_)
        => /\ pc = "ticking"
           /\ player'.playback_speed_ = player.playback_speed_
           /\ value(player'.time_tracker_).speed_ = player.playback_speed_]_vars

\* a request {seek_time 3, speed 2.0} set the speed while no clock existed; the
\* clock created by the next tick runs at 2.0
C38_Witness ==
  /\ corpus = <<1, 3, 3>>
  /\ player.message_view_.startTime = 3
  /\ delivered = <<3>>
  /\ has_value(player.time_tracker_)
  /\ value(player.time_tracker_).speed_ = Fin(2000)
  /\ value(player.time_tracker_).paused_elapsed_ns_ = 0
  /\ player.playback_speed_ = Fin(2000)
  /\ handled = 1

\* C39: DataPlayer publishes nothing while paused. Every publish step of tick()
\* (a time broadcast and a logged record) is taken with playing_ set, under every
\* interleaving of tick() with the control-request handler.
C39_NoPublishWhilePaused ==
  [][(dp_pc = "publish" /\ dp_pc' = "status") \/ dp_sink' # dp_sink
       => data_player.playing_]_vars

\* C40: whenever playback_mutex_ is free (between the critical sections of tick()
\* and of the handler), current_playback_index_ is inside the buffer and
\* current_time_ is the timestamp of the record at that index; so the publish
\* step reads data_ inside its bounds.
C40_DataIndexInBounds ==
  /\ Len(data_) > 0
  /\ data_player.current_playback_index_ \in 0..(Len(data_) - 1)
  /\ data_player.current_time_ = data_[data_player.current_playback_index_ + 1]

\* after one request, tick() has published the record before the last and is about
\* to publish the last record of the buffer
C40_Witness ==
  /\ dp_pc = "publish"
  /\ data_player.playing_
  /\ data_player.current_playback_index_ = Len(data_) - 1
  /\ data_player.current_time_ = data_[Len(data_)]
  /\ dp_sink.logged = Some(<<data_[Len(data_) - 1], data_[Len(data_) - 1]>>)
  /\ handled = 1

====
